---------------------------- MODULE Spec2Model ----------------------------
(***************************************************************************)
(* A model of automl/benchmark.py: the Benchmark orchestrator (framework   *)
(* setup, task lookup, job expansion, job execution, result collection),   *)
(* the TaskConfig resource estimate and BenchmarkTask.run with the         *)
(* command-line overrides.                                                 *)
(*                                                                         *)
(* Conventions.                                                            *)
(*  - An optional value (Python None, or a float NaN) is a sequence of     *)
(*    length 0; a present value x is <<x>>.                                *)
(*  - A Python str whose characters matter is a sequence of one-character  *)
(*    strings.                                                             *)
(*  - Memory sizes are floats in the program (MB).  They are counted here  *)
(*    in half megabytes (names ending in 2), which is enough to represent  *)
(*    available - os_mem_size_mb / 2 exactly for an integer os_mem_size_mb *)
(*    and to make int() and round() visible.                               *)
(***************************************************************************)
EXTENDS Integers, Sequences, FiniteSets, TLC

VARIABLES
    benchmark_def,   \* Benchmark.benchmark_def: the sequence of task definitions
    config,          \* rconfig(): the settings the module reads
    parallel_jobs,   \* Benchmark.parallel_jobs
    pc,              \* where Benchmark.run is: idle, running, collected, returned, raised
    args,            \* the arguments of the current Benchmark.run call
    jobs,            \* the BenchmarkTask of every job of the call, in submission order
    results,         \* the completions the job runner returned so far
    report,          \* what Benchmark.run returned: <<>> (None) or <<rows>>
    error,           \* the exception Benchmark.run raised, "" if none
    last,            \* the last BenchmarkTask.run: its inputs and the TaskConfig it built
    init_args,       \* the arguments Benchmark.__init__ was called with
    framework        \* the framework of the Benchmark: its module, its definition,
                     \* its directory (the marker file) and the setup calls made

vars == <<benchmark_def, config, parallel_jobs, pc, args, jobs, results, report, error, last,
          init_args, framework>>

---------------------------------------------------------------------------
(* Bounds of the model                                                     *)

MaxNames == 2        \* longest task_name list
MaxFoldList == 2     \* longest fold list
MaxFold == 2         \* fold values range over -1..MaxFold
MaxJobs == 3         \* longest batch of jobs explored
MaxParallel == 2     \* requested parallel_jobs range over 0..MaxParallel
MaxText == 5         \* longest exception text
MaxErrLen == 13      \* error_max_length ranges over 0..MaxErrLen
MaxCores == 3        \* requested and system cores
MaxMem2 == 5         \* memory sizes, in half megabytes
MaxOsMem == 4        \* os_mem_size_mb
MaxSetupCalls == 3   \* most calls of Benchmark.setup explored
MaxRuns == 2         \* most calls of BenchmarkTask.run on one BenchmarkTask

None == <<>>
NaN == <<>>
Some(x) == <<x>>
IsNone(x) == x = <<>>
Val(x) == x[1]

Min(a, b) == IF a <= b THEN a ELSE b
Max(a, b) == IF a >= b THEN a ELSE b

SeqsUpTo(S, n) == UNION {[1..k -> S] : k \in 0..n}

RECURSIVE Flatten(_)
Flatten(ss) == IF ss = <<>> THEN <<>> ELSE Head(ss) \o Flatten(Tail(ss))

RECURSIVE SelectIdx(_, _, _)
\* the elements of s, from index i on, whose index is in keep (in order)
SelectIdx(s, i, keep) ==
    IF i > Len(s) THEN <<>>
    ELSE (IF i \in keep THEN <<s[i]>> ELSE <<>>) \o SelectIdx(s, i + 1, keep)

---------------------------------------------------------------------------
(* Python built-ins the code uses                                          *)

\* s[:k], k possibly negative
PySliceTo(s, k) ==
    IF k >= 0 THEN SubSeq(s, 1, Min(k, Len(s)))
    ELSE SubSeq(s, 1, Max(Len(s) + k, 0))

\* int(x) of a float x = x2 / 2: truncation toward zero
PyInt2(x2) == IF x2 >= 0 THEN x2 \div 2 ELSE -((-x2) \div 2)

\* round(x) of a float x = x2 / 2: to the nearest integer, ties to even
PyRound2(x2) ==
    IF x2 % 2 = 0 THEN x2 \div 2
    ELSE LET k == (x2 - 1) \div 2 IN IF k % 2 = 0 THEN k ELSE k + 1

---------------------------------------------------------------------------
(* TaskConfig                                                              *)

\* A metric argument is a str, [kind |-> "str", v |-> <<name>>], or a list of
\* str, [kind |-> "list", v |-> names].
\* line 222: [metrics] if isinstance(metrics, str) else metrics
InitMetrics(metrics) == IF metrics.kind = "str" THEN <<metrics.v[1]>> ELSE metrics.v

\* line 223: metrics[0] if isinstance(metrics, list) else metrics
InitMetric(metrics) == metrics.v[1]

\* rconfig().predictions_dir, the output_dir of every TaskConfig (line 211)
PredictionsDir == "predictions"

\* TaskConfig.from_def / TaskConfig.__init__: the template built from a task
\* definition and a fold; framework and type are not set yet.
TaskConfigFromDef(task_def, fold) ==
    [ name |-> task_def.name,
      fold |-> fold,
      metrics |-> InitMetrics(task_def.metric),
      metric |-> InitMetric(task_def.metric),
      seed |-> task_def.seed,
      max_runtime_seconds |-> task_def.max_runtime_seconds,
      framework_params |-> None,
      output_predictions_file |-> <<PredictionsDir, "predictions.csv">>,   \* 230
      cores |-> task_def.cores,
      max_mem_size_mb2 |-> task_def.max_mem_size_mb2,
      framework |-> None,
      type |-> None ]

\* a slip of line 237: max for min
ResolvedCoresMax(cores, sys_cores) ==
    IF cores > 0 THEN Max(cores, sys_cores) ELSE sys_cores

\* line 237: min(self.cores, sys_cores) if self.cores > 0 else sys_cores
ResolvedCores(cores, sys_cores) ==
    IF cores > 0 THEN Min(cores, sys_cores) ELSE sys_cores

\* line 243: int(sys_mem.available - os_recommended_mem / 2)
LeftForAppMem(available2, os_mem) == PyInt2(available2 - os_mem)

\* a slip of line 245: left >= 0 for left > 0
AssignedMemNonNegative(requested2, available2, os_mem) ==
    LET left == LeftForAppMem(available2, os_mem)
    IN  IF requested2 > 0 THEN PyRound2(requested2)
        ELSE IF left >= 0 THEN left
        ELSE PyRound2(available2)

\* lines 244-246: round(requested if requested > 0 else left if left > 0
\* else available); the result is an integer number of MB
AssignedMem(requested2, available2, os_mem) ==
    LET left == LeftForAppMem(available2, os_mem)
    IN  IF requested2 > 0 THEN PyRound2(requested2)
        ELSE IF left > 0 THEN left
        ELSE PyRound2(available2)

\* lines 249-255: which warning is logged
MemWarning(assigned, available2, total2, os_mem) ==
    IF 2 * assigned > available2 THEN "exceeds_available"
    ELSE IF 2 * assigned > total2 - 2 * os_mem THEN "within_buffer"
    ELSE "none"

\* TaskConfig.estimate_system_params on the config tc, the system reporting
\* sys = [cores, available2, total2].  A cores of None makes `self.cores > 0`
\* raise TypeError before anything is assigned.
EstimateSystemParams(tc, sys, os_mem) ==
    IF IsNone(tc.cores)
    THEN [raised |-> TRUE, tc |-> tc, warning |-> "none"]
    ELSE LET assigned == AssignedMem(tc.max_mem_size_mb2, sys.available2, os_mem)
         IN  [ raised |-> FALSE,
               tc |-> [tc EXCEPT !.cores = Some(ResolvedCores(Val(tc.cores), sys.cores)),
                                 !.max_mem_size_mb2 = 2 * assigned],
               warning |-> MemWarning(assigned, sys.available2, sys.total2, os_mem) ]

---------------------------------------------------------------------------
(* BenchmarkTask                                                           *)

FrameworkName == "constant"

ErrorPrefix == <<"E", "r", "r", "o", "r", ":", " ">>
Ellipsis == <<".", ".", ".">>
SampleText == <<"a", "b", "c", "d", "e", "f", "g", "h", "i", "j">>

\* the text of an exception, of length n
ExcText(n) == SubSeq(SampleText, 1, n)

\* line 333: 'Error: ' + str(e)
ErrorMessage(text) == ErrorPrefix \o text

\* a slip of line 335: len(msg) < max_len for len(msg) <= max_len
TruncateMessageStrict(msg, max_len) ==
    IF Len(msg) < max_len THEN msg ELSE PySliceTo(msg, max_len - 3) \o Ellipsis

\* line 335: msg if len(msg) <= max_len else (msg[:max_len - 3] + '...')
TruncateMessage(msg, max_len) ==
    IF Len(msg) <= max_len THEN msg ELSE PySliceTo(msg, max_len - 3) \o Ellipsis

\* TaskResult.compute_scores: the row of a job.  With a meta_result the row is
\* scored and carries the duration the adapter reported (NaN if it reported
\* none); with result=NoResult(info) it carries the message and no duration.
ComputeScores(task_name, fold, meta, info) ==
    [ task |-> task_name,
      fold |-> fold,
      framework |-> FrameworkName,
      kind |-> IF IsNone(meta) THEN "NoResult" ELSE "Scored",
      info |-> info,
      duration |-> IF IsNone(meta) THEN NaN ELSE Val(meta).training_duration ]

\* BenchmarkTask.__init__
NewBenchmarkTask(ti, task_def, fold) ==
    [ ti |-> ti,
      fold |-> fold,
      task |-> TaskConfigFromDef(task_def, fold),
      dataset |-> "none",        \* self._dataset: none, loaded
      releases |-> 0,            \* calls of self._dataset.release()
      adapter |-> "notcalled",   \* framework.run: notcalled, returned, raised
      run |-> "notrun",          \* BenchmarkTask.run: notrun, returned, raised
      exc |-> <<>>,              \* str(e) of the exception framework.run raised
      reported |-> NaN,          \* the training duration framework.run reported
      measured |-> 0,            \* the duration Job.start measured
      runs |-> 0 ]               \* calls of BenchmarkTask.run on this object

\* a slip of lines 331-336: no except clause, the adapter's exception leaves
\* the method after the finally clause
RunTryUncaught(bt, tc, max_len, env) ==
    IF env.adapter.kind = "ok"
    THEN [ run |-> "returned", adapter |-> "returned", releases |-> bt.releases + 2,
           result |-> Some(ComputeScores(tc.name, bt.fold,
                           Some([training_duration |-> env.adapter.duration]), <<>>)) ]
    ELSE [ run |-> "raised", adapter |-> "raised", releases |-> bt.releases + 1,
           result |-> None ]

\* a slip of lines 337-338: no finally clause
RunTryNoFinally(bt, tc, max_len, env) ==
    IF env.adapter.kind = "ok"
    THEN [ run |-> "returned", adapter |-> "returned", releases |-> bt.releases + 1,
           result |-> Some(ComputeScores(tc.name, bt.fold,
                           Some([training_duration |-> env.adapter.duration]), <<>>)) ]
    ELSE [ run |-> "returned", adapter |-> "raised", releases |-> bt.releases,
           result |-> Some(ComputeScores(tc.name, bt.fold, None,
                           TruncateMessage(ErrorMessage(env.adapter.text), max_len))) ]

\* lines 326-338: the try statement of BenchmarkTask.run, entered with the
\* specialized task_config tc.  env.adapter is what framework.run does.
RunTry(bt, tc, max_len, env) ==
    IF env.adapter.kind = "ok"
    THEN \* 328-330, then the finally clause (338)
         [ run |-> "returned",
           adapter |-> "returned",
           releases |-> bt.releases + 2,
           result |-> Some(ComputeScores(tc.name, bt.fold,
                           Some([training_duration |-> env.adapter.duration]), <<>>)) ]
    ELSE \* 331-336, then the finally clause (338)
         [ run |-> "returned",
           adapter |-> "raised",
           releases |-> bt.releases + 1,
           result |-> Some(ComputeScores(tc.name, bt.fold, None,
                           TruncateMessage(ErrorMessage(env.adapter.text), max_len))) ]

\* lines 319-322: the overrides of rconfig().t, each set on the config when it
\* is not None, in the order max_runtime_seconds, metric, metrics, seed
Override(tc, t) ==
    IF IsNone(t) THEN tc
    ELSE LET o == Val(t)
         IN  [tc EXCEPT
                !.max_runtime_seconds = IF IsNone(o.max_runtime_seconds) THEN @
                                        ELSE Val(o.max_runtime_seconds),
                !.metric = IF IsNone(o.metric) THEN @ ELSE Val(o.metric),
                !.metrics = IF IsNone(o.metrics) THEN @ ELSE Val(o.metrics),
                !.seed = IF IsNone(o.seed) THEN @ ELSE Val(o.seed)]

\* framework_def.params of the framework
FrameworkDefParams == ("verbose" :> "False")

\* ns(framework_def.params) + rconfig().f (line 317): the parameters of the
\* definition with those of the command line added, the latter winning
MergeParams(params, f) == f @@ params

\* lines 313-317: framework_def.params, merged with rconfig().f if there is one
FrameworkParams(f) ==
    IF IsNone(f) THEN FrameworkDefParams ELSE MergeParams(FrameworkDefParams, Val(f))

\* str.lower() on the framework names explored
Lower(name) == IF name = "Constant" THEN "constant" ELSE name

\* results._predictions_file(framework) (line 324): a path that embeds the
\* name it is given
PredictionsFile(name) == <<PredictionsDir, name, "predictions.csv">>

\* The TaskConfig objects of one call of BenchmarkTask.run are kept in a heap,
\* a function from references to the attributes of the object referred to.
\* The template is the object self.task refers to.
SelfTask == "self.task"

\* a slip of line 310: no copy, task_config refers to the template itself
CopyAliased(heap, ref) == [heap |-> heap, ref |-> ref]

\* copy(self.task) (line 310): a new object with the attributes of the one
\* copied.  The copy is shallow, its attributes are bound to the same values;
\* every write of lines 311-325 binds an attribute anew and none changes a
\* value in place.
Copy(heap, ref) == [heap |-> ("task_config" :> heap[ref]) @@ heap, ref |-> "task_config"]

\* the assignments made to the attributes of the object ref refers to
SetAttrs(heap, ref, attrs) == [heap EXCEPT ![ref] = attrs]

\* BenchmarkTask.run (lines 308-338) for a loaded dataset.  Nothing before the
\* try statement is guarded: an exception of is_categorical() (311) or of
\* estimate_system_params() (325) leaves the method.  template is self.task
\* once the call has ended, task_config the object the local name refers to.
BenchmarkTaskRun(bt, cfg, env) ==
    LET copied == Copy([r \in {SelfTask} |-> bt.task], SelfTask)    \* 310
        task_config == copied.ref
        escaped == [ run |-> "raised", adapter |-> "notcalled",
                     releases |-> bt.releases, result |-> None ]
        Ended(heap) == [task_config |-> heap[task_config], template |-> heap[SelfTask]]
    IN  IF env.categorical = "raise"
        THEN escaped @@ Ended(copied.heap) @@ [handed |-> FALSE, warning |-> "none"]
        ELSE LET typed == [copied.heap[task_config] EXCEPT
                              !.type = Some(IF env.categorical = "yes"
                                            THEN "classification" ELSE "regression"),
                              !.framework = Some(FrameworkName),     \* 311-312
                              !.framework_params = Some(FrameworkParams(cfg.f))] \* 313-317
                 overridden == Override(typed, cfg.t)               \* 319-322
                 pathed == [overridden EXCEPT !.output_predictions_file =
                               PredictionsFile(Lower(Val(overridden.framework)))] \* 324
                 est == EstimateSystemParams(pathed, env.sys, cfg.os_mem_size_mb) \* 325
                 heap == SetAttrs(copied.heap, task_config, est.tc)
             IN  IF est.raised
                 THEN escaped @@ Ended(heap) @@ [handed |-> FALSE, warning |-> "none"]
                 ELSE RunTry(bt, est.tc, cfg.error_max_length, env)
                      @@ Ended(heap) @@ [handed |-> TRUE, warning |-> est.warning]

---------------------------------------------------------------------------
(* Benchmark: task lookup and job expansion                                *)

\* str2bool(str(task_def.enabled)) for the values a definition's flag takes
Str2Bool(flag) == flag \in {"True", "true", "yes", "1"}

\* a slip of line 195: a definition without the attribute counts as disabled
IsTaskEnabledPresent(task_def) == ~IsNone(task_def.enabled) /\ Str2Bool(Val(task_def.enabled))

\* Benchmark._is_task_enabled (line 195): no enabled attribute, or a true one
IsTaskEnabled(task_def) == IsNone(task_def.enabled) \/ Str2Bool(Val(task_def.enabled))

\* Benchmark._benchmark_tasks (line 132): the indices of the enabled
\* definitions, in the order of the benchmark definition
BenchmarkTasks(defs) ==
    SelectIdx([i \in 1..Len(defs) |-> i], 1,
              {i \in 1..Len(defs) : IsTaskEnabled(defs[i])})

\* Benchmark._get_task_def (lines 134-141): the first definition of that
\* name, or the ValueError raised
GetTaskDef(defs, name) ==
    LET hits == {i \in 1..Len(defs) : defs[i].name = name}
    IN  IF hits = {} THEN [err |-> "IncorrectTaskName", ti |-> 0]
        ELSE LET ti == CHOOSE i \in hits : \A j \in hits : i <= j
             IN  IF ~IsTaskEnabled(defs[ti]) THEN [err |-> "TaskDisabled", ti |-> ti]
                 ELSE [err |-> "", ti |-> ti]

\* the first error of a sequence of outcomes, "" if none
RECURSIVE FirstErr(_)
FirstErr(outs) ==
    IF outs = <<>> THEN ""
    ELSE IF Head(outs).err # "" THEN Head(outs).err
    ELSE FirstErr(Tail(outs))

\* lines 99-101: the task definitions of a call, as indices
TaskDefs(defs, task_name) ==
    IF task_name.kind = "none" THEN [err |-> "", tis |-> BenchmarkTasks(defs)]
    ELSE LET got == [k \in 1..Len(task_name.v) |-> GetTaskDef(defs, task_name.v[k])]
         IN  [err |-> FirstErr(got), tis |-> [k \in 1..Len(got) |-> got[k].ti]]

\* a slip of line 145: a list of folds taken in reverse
FoldListReversed(n_folds, fold) ==
    IF fold.kind = "none" THEN Some([k \in 1..n_folds |-> k - 1])
    ELSE IF fold.kind = "list" /\ \A k \in 1..Len(fold.v) : ~IsNone(fold.v[k])
         THEN Some([k \in 1..Len(fold.v) |-> Val(fold.v[Len(fold.v) + 1 - k])])
    ELSE IF fold.kind = "int" THEN Some(<<Val(fold.v)>>)
    ELSE None

\* lines 144-147: the folds a fold argument names, None when it is neither
\* None, a list of ints nor an int
FoldList(n_folds, fold) ==
    IF fold.kind = "none" THEN Some([k \in 1..n_folds |-> k - 1])
    ELSE IF fold.kind = "list" /\ \A k \in 1..Len(fold.v) : ~IsNone(fold.v[k])
         THEN Some([k \in 1..Len(fold.v) |-> Val(fold.v[k])])
    ELSE IF fold.kind = "int" THEN Some(<<Val(fold.v)>>)
    ELSE None

\* a slip of line 158: fold > folds for fold >= folds
FoldOutOfRangeInclusive(fold, n_folds) == fold < 0 \/ fold > n_folds

\* a slip of line 158: fold <= 0 for fold < 0
FoldOutOfRangeNoZero(fold, n_folds) == fold <= 0 \/ fold >= n_folds

\* line 158: the range check of Benchmark._make_job
FoldOutOfRange(fold, n_folds) == fold < 0 \/ fold >= n_folds

\* Benchmark._make_job (lines 152-161)
MakeJob(ti, task_def, fold) ==
    IF FoldOutOfRange(fold, task_def.folds)
    THEN [err |-> "FoldOutOfRange", job |-> None]
    ELSE [err |-> "", job |-> Some(NewBenchmarkTask(ti, task_def, fold))]

\* Benchmark._task_jobs (lines 143-150)
TaskJobs(ti, task_def, fold) ==
    LET folds == FoldList(task_def.folds, fold)
    IN  IF IsNone(folds) THEN [err |-> "BadFoldValue", jobs |-> <<>>]
        ELSE LET made == [k \in 1..Len(Val(folds)) |-> MakeJob(ti, task_def, Val(folds)[k])]
             IN  IF FirstErr(made) # "" THEN [err |-> FirstErr(made), jobs |-> <<>>]
                 ELSE [err |-> "", jobs |-> [k \in 1..Len(made) |-> Val(made[k].job)]]

\* lines 99-105 of Benchmark.run: the jobs of a call, or the ValueError raised
\* before any of them exists
ResolveJobs(defs, task_name, fold) ==
    LET td == TaskDefs(defs, task_name)
    IN  IF td.err # "" THEN [err |-> td.err, jobs |-> <<>>]
        ELSE IF Len(td.tis) = 0 THEN [err |-> "NoTaskAvailable", jobs |-> <<>>]
        ELSE LET per == [k \in 1..Len(td.tis) |->
                            TaskJobs(td.tis[k], defs[td.tis[k]], fold)]
             IN  IF FirstErr(per) # "" THEN [err |-> FirstErr(per), jobs |-> <<>>]
                 ELSE [err |-> "", jobs |-> Flatten([k \in 1..Len(per) |-> per[k].jobs])]

---------------------------------------------------------------------------
(* Benchmark: running the jobs and collecting the results                  *)

\* a slip of lines 63-65: the requested value is kept
ValidateKept(requested) == requested

\* Benchmark._validate (lines 62-65)
Validate(requested) == IF requested > 1 THEN 1 ELSE requested

\* Job.start: the completion of a job, pairing the job with what its _run
\* returned and the wall-clock duration measured.  An exception that leaves
\* _run (load_data's, or one BenchmarkTask.run lets through) ends that job
\* only: its completion carries no result (None), which is what the test
\* `res.result is not None` of lines 113 and 127 provides for.
Completion(i, result, measured) == [job |-> i, result |-> result, duration |-> measured]

\* a slip of lines 127-128: the test inverted, a NaN duration is left alone
ReconcileDurationInverted(res) ==
    IF ~IsNone(res.result) /\ ~IsNone(Val(res.result).duration)
    THEN [res EXCEPT !.result = Some([Val(res.result) EXCEPT !.duration = Some(res.duration)])]
    ELSE res

\* lines 127-128: a result whose own duration is NaN takes the measured one
ReconcileDuration(res) ==
    IF ~IsNone(res.result) /\ IsNone(Val(res.result).duration)
    THEN [res EXCEPT !.result = Some([Val(res.result) EXCEPT !.duration = Some(res.duration)])]
    ELSE res

\* lines 126-129: the loop over the completions
ReconcileDurations(completions) ==
    [k \in 1..Len(completions) |-> ReconcileDuration(completions[k])]

\* Benchmark._process_results (lines 163-175): the rows of the board built
\* from the completions, None when there is no row
ProcessResults(completions) ==
    LET scores == [k \in 1..Len(completions) |-> Val(completions[k].result)]
    IN  IF Len(scores) = 0 THEN None ELSE Some(scores)

\* the completions that carry a result
WithResult(completions) ==
    SelectIdx(completions, 1, {k \in 1..Len(completions) : ~IsNone(completions[k].result)})

\* line 113: the completions with a result of the task named name
TaskResults(completions, name) ==
    SelectIdx(completions, 1,
              {k \in 1..Len(completions) :
                  ~IsNone(completions[k].result) /\ Val(completions[k].result).task = name})

\* lines 109-115: with no task_name one board of every result; otherwise one
\* board per task definition, each assigned to the same variable, the last
\* one returned
RECURSIVE BoardOfTasks(_, _, _, _)
BoardOfTasks(defs, tis, completions, scoreboard) ==
    IF tis = <<>> THEN scoreboard
    ELSE BoardOfTasks(defs, Tail(tis), completions,
                      ProcessResults(TaskResults(completions, defs[Head(tis)].name)))

RunReport(defs, task_name, completions) ==
    IF task_name.kind = "none" THEN ProcessResults(WithResult(completions))
    ELSE BoardOfTasks(defs, TaskDefs(defs, task_name).tis, completions, None)

---------------------------------------------------------------------------
(* The inputs explored                                                     *)

MetricStr(name) == [kind |-> "str", v |-> <<name>>]
MetricList(names) == [kind |-> "list", v |-> names]

TaskDef(name, folds, enabled, cores, mem2, source) ==
    [ name |-> name, folds |-> folds, enabled |-> enabled, cores |-> cores,
      max_mem_size_mb2 |-> mem2, source |-> source, id |-> "absent",
      metric |-> MetricStr("acc"), seed |-> 0, max_runtime_seconds |-> 600 ]

Sources == {"openml_task_id", "openml_dataset_id", "dataset", "nothing"}

Catalogs ==
    { << TaskDef("iris", 2, None, Some(2), 0, "openml_task_id"),
         TaskDef("kc2", 1, Some("True"), Some(0), 4, "openml_task_id"),
         TaskDef("raw", 1, None, Some(1), 0, "dataset"),
         TaskDef("old", 2, Some("False"), Some(1), 0, "openml_task_id") >>,
      << TaskDef("old", 2, Some("False"), Some(1), 0, "openml_task_id") >> }

Names == {"iris", "kc2", "raw", "old", "does-not-exist"}

TaskNameArgs ==
    {[kind |-> "none", v |-> <<>>]}
    \cup {[kind |-> "str", v |-> <<n>>] : n \in Names}
    \cup {[kind |-> "list", v |-> l] : l \in SeqsUpTo(Names, MaxNames)}

\* a fold list may hold a non-int (None here)
FoldArgs ==
    {[kind |-> "none", v |-> <<>>], [kind |-> "other", v |-> <<>>]}
    \cup {[kind |-> "int", v |-> Some(f)] : f \in -1..MaxFold}
    \cup {[kind |-> "list", v |-> l] :
            l \in SeqsUpTo({None} \cup {Some(f) : f \in -1..MaxFold}, MaxFoldList)}

Adapters(lens) ==
    {[kind |-> "ok", duration |-> d, text |-> <<>>] : d \in {NaN, Some(1)}}
    \cup {[kind |-> "raise", duration |-> NaN, text |-> ExcText(n)] : n \in lens}

Env(categoricals, syss, adapters, measureds) ==
    [categorical : categoricals, sys : syss, adapter : adapters, measured : measureds]

\* what a job of a batch meets
BatchEnv ==
    Env({"yes", "raise"}, {[cores |-> 2, available2 |-> 4, total2 |-> 8]},
        Adapters({MaxText}), {2, 3})

\* what a single BenchmarkTask meets
TaskEnv ==
    Env({"yes", "no", "raise"}, {[cores |-> 2, available2 |-> 4, total2 |-> 8]},
        Adapters(0..MaxText), {2})

NoSys == [cores |-> 0, available2 |-> 0, total2 |-> 0]
NoLast == [task_config |-> TaskConfigFromDef(TaskDef("", 0, None, None, 0, "nothing"), 0),
           sys |-> NoSys, warning |-> "none", handed |-> FALSE, estimated |-> FALSE]

---------------------------------------------------------------------------
(* Benchmark.setup and the marker file of the framework                    *)

\* Benchmark.SetupMode (line 43)
SetupModes == {"auto", "skip", "force", "only"}

\* The framework a Benchmark was built for: has_setup is
\* hasattr(framework_module, 'setup'), setup_cmd is framework_def.setup_cmd
\* (None, or a command), marker is whether the marker file of the framework
\* directory exists, task_loader whether Benchmark.task_loader was set, and
\* calls the log of the setup calls made.
Framework(has_setup, setup_cmd, marker) ==
    [has_setup |-> has_setup, setup_cmd |-> setup_cmd, marker |-> marker,
     task_loader |-> FALSE, calls |-> <<>>]

\* the framework of a Benchmark whose setup is not looked at
NoFramework == Framework(FALSE, None, FALSE)

\* Benchmark._setup_done (lines 181-187): the marker file afterwards and the
\* value returned
SetupDone(marker, touch) ==
    LET setup_done == marker
    IN  IF touch /\ ~setup_done
        THEN [marker |-> TRUE, done |-> TRUE]
        ELSE [marker |-> marker, done |-> setup_done]

SetupCompletedAlways(module_setup, setup_cmd) == module_setup # "notcalled"

\* whether control reaches line 88 of Benchmark.setup: the adapter's setup
\* (line 81) returned and run_cmd (line 83), if called, returned
SetupCompleted(module_setup, setup_cmd) ==
    module_setup = "returned" /\ setup_cmd # "raised"

\* Benchmark.setup (lines 67-88) of framework fw with the given mode, where
\* env tells whether the adapter's setup and run_cmd raise when called: the
\* record of the call
BenchmarkSetup(fw, mode, env) ==
    LET skipped == mode = "skip" \/ ~fw.has_setup
        done == mode = "auto" /\ SetupDone(fw.marker, FALSE).done
        module_setup == IF skipped \/ done THEN "notcalled"
                        ELSE IF env.setup = "raise" THEN "raised" ELSE "returned"
        setup_cmd == IF module_setup # "returned" \/ IsNone(fw.setup_cmd) THEN "notcalled"
                     ELSE IF env.cmd = "raise" THEN "raised" ELSE "returned"
    IN  [mode |-> mode,
         marker_before |-> fw.marker,
         module_setup |-> module_setup,
         setup_cmd |-> setup_cmd,
         raised |-> module_setup = "raised" \/ setup_cmd = "raised",
         marker_after |-> IF SetupCompleted(module_setup, setup_cmd)
                          THEN SetupDone(fw.marker, TRUE).marker
                          ELSE fw.marker]

SetupEnv == [setup : {"ok", "raise"}, cmd : {"ok", "raise"}]

InitSetup ==
    /\ benchmark_def \in Catalogs
    /\ config = [error_max_length |-> 10, os_mem_size_mb |-> 2, t |-> None, f |-> None]
    /\ init_args = [parallel_jobs |-> 1]
    /\ parallel_jobs = Validate(init_args.parallel_jobs)
    /\ \E has_setup \in BOOLEAN, setup_cmd \in {None, Some("make")}, marker \in BOOLEAN :
          framework = Framework(has_setup, setup_cmd, marker)
    /\ pc = "idle"
    /\ args = [task_name |-> [kind |-> "none", v |-> <<>>], fold |-> [kind |-> "none", v |-> <<>>]]
    /\ jobs = <<>>
    /\ results = <<>>
    /\ report = None
    /\ error = ""
    /\ last = NoLast

\* the framework after one call of Benchmark.setup: line 73 sets
\* Benchmark.task_loader in every mode, before anything can raise
AfterSetup(fw, mode, env) ==
    LET call == BenchmarkSetup(fw, mode, env)
    IN  [fw EXCEPT !.task_loader = TRUE,
                   !.marker = call.marker_after,
                   !.calls = Append(@, call)]

\* one call of Benchmark.setup (lines 67-88) with a mode of modes, as long as
\* fewer than most calls were made
SetupCalls(modes, most) ==
    /\ Len(framework.calls) < most
    /\ \E mode \in modes, env \in SetupEnv :
          framework' = AfterSetup(framework, mode, env)
    /\ UNCHANGED <<benchmark_def, config, parallel_jobs, pc, args, jobs, results, report,
                   error, last, init_args>>

\* one call of Benchmark.setup (lines 67-88), any mode
Setup == SetupCalls(SetupModes, MaxSetupCalls)

\* the setup call made before Benchmark.run, which gives the Benchmark class
\* its task loader; without it Benchmark.task_loader is None
SetupBeforeRun == pc = "idle" /\ SetupCalls({"auto"}, 1)

\* the framework of a Benchmark whose run is under way: setup was called
\* before it, or never
RunFrameworks ==
    {NoFramework, AfterSetup(NoFramework, "auto", [setup |-> "ok", cmd |-> "ok"])}

NextSetup == Setup

SpecSetup == InitSetup /\ [][NextSetup]_vars

---------------------------------------------------------------------------
(* Benchmark.run, a batch of jobs under the sequential runner              *)

Init ==
    /\ benchmark_def \in Catalogs
    /\ config = [error_max_length |-> 10, os_mem_size_mb |-> 2, t |-> None, f |-> None]
    /\ init_args \in [parallel_jobs : 0..1]    \* larger requests: SpecParallel
    /\ parallel_jobs = Validate(init_args.parallel_jobs)
    /\ framework = NoFramework
    /\ pc = "idle"
    /\ args = [task_name |-> [kind |-> "none", v |-> <<>>], fold |-> [kind |-> "none", v |-> <<>>]]
    /\ jobs = <<>>
    /\ results = <<>>
    /\ report = None
    /\ error = ""
    /\ last = NoLast

\* Benchmark.run up to the call of _run_jobs (lines 99-105): the ValueError,
\* or the jobs submitted to the runner
Run ==
    /\ pc = "idle"
    /\ \E task_name \in TaskNameArgs, fold \in FoldArgs :
          LET r == ResolveJobs(benchmark_def, task_name, fold)
          IN  /\ Len(r.jobs) <= MaxJobs
              /\ args' = [task_name |-> task_name, fold |-> fold]
              /\ jobs' = r.jobs
              /\ error' = r.err
              /\ pc' = IF r.err # "" THEN "raised" ELSE "running"
    /\ UNCHANGED <<benchmark_def, config, parallel_jobs, results, report, last, init_args, framework>>

\* the job the sequential runner is at: jobs run one at a time in submission
\* order, each leaving one completion
Current == Len(results) + 1

\* line 120: the sequential runner is chosen when parallel_jobs is 1.  After
\* _validate any other value is below 1, and the worker pool of line 124 then
\* has no worker: no job of the batch starts and _run_jobs does not return.
Running == pc = "running" /\ parallel_jobs = 1 /\ Current <= Len(jobs)

\* what Benchmark.task_loader.load does (line 279): it returns a dataset, or
\* raises
LoadOutcomes == {"ok", "raise"}

\* line 279: whether self._dataset is assigned.  With Benchmark.task_loader
\* None (setup never called) the attribute access raises AttributeError.
Loads(fw, load) == fw.task_loader /\ load = "ok"

\* BenchmarkTask.load_data (lines 277-290), the first step of a job's _run.
\* Every branch that sets an id writes it to the shared task definition, before
\* anything is loaded; only an openml_task_id loads a dataset, and only if the
\* loader is there and returns; every other path raises and ends the job.
LoadData ==
    /\ Running
    /\ jobs[Current].dataset = "none" /\ jobs[Current].run = "notrun"
    /\ \E load \in LoadOutcomes :
       LET bt == jobs[Current]
           source == benchmark_def[bt.ti].source
           id == CASE source = "openml_task_id" -> "openml.org/t"
                   [] source = "openml_dataset_id" -> "openml.org/d"
                   [] source = "dataset" -> "None"
                   [] OTHER -> benchmark_def[bt.ti].id
       IN  /\ benchmark_def' = [benchmark_def EXCEPT ![bt.ti].id = id]
           /\ IF source = "openml_task_id" /\ Loads(framework, load)
              THEN /\ jobs' = [jobs EXCEPT ![Current].dataset = "loaded"]
                   /\ UNCHANGED results
              ELSE \E measured \in {2, 3} :
                      /\ results' = Append(results, Completion(Current, None, measured))
                      /\ jobs' = [jobs EXCEPT ![Current].measured = measured]
    /\ UNCHANGED <<config, parallel_jobs, pc, args, report, error, last, init_args, framework>>

\* BenchmarkTask.run (lines 308-338), the second step of a job's _run, and the
\* completion Job.start makes of it
TaskRun(envs) ==
    /\ Running
    /\ jobs[Current].dataset = "loaded" /\ jobs[Current].run = "notrun"
    /\ \E env \in envs :
          LET out == BenchmarkTaskRun(jobs[Current], config, env)
          IN  /\ jobs' = [jobs EXCEPT ![Current].task = out.template,
                                      ![Current].runs = @ + 1,
                                      ![Current].run = out.run,
                                      ![Current].adapter = out.adapter,
                                      ![Current].releases = out.releases,
                                      ![Current].exc = IF out.adapter = "raised"
                                                       THEN env.adapter.text ELSE <<>>,
                                      ![Current].reported = IF out.adapter = "returned"
                                                            THEN env.adapter.duration ELSE NaN,
                                      ![Current].measured = env.measured]
              /\ results' = Append(results, Completion(Current, out.result, env.measured))
              /\ last' = [task_config |-> out.task_config, sys |-> env.sys,
                          warning |-> out.warning, handed |-> out.handed,
                          estimated |-> out.handed]
    /\ UNCHANGED <<benchmark_def, config, parallel_jobs, pc, args, report, error, init_args, framework>>

\* the end of Benchmark._run_jobs (lines 126-129)
RunJobsReturn ==
    /\ pc = "running" /\ parallel_jobs = 1 /\ Len(results) = Len(jobs)
    /\ results' = ReconcileDurations(results)
    /\ pc' = "collected"
    /\ UNCHANGED <<benchmark_def, config, parallel_jobs, args, jobs, report, error, last, init_args, framework>>

\* the end of Benchmark.run (lines 109-117)
RunReturn ==
    /\ pc = "collected"
    /\ report' = RunReport(benchmark_def, args.task_name, results)
    /\ pc' = "returned"
    /\ UNCHANGED <<benchmark_def, config, parallel_jobs, args, jobs, results, error, last, init_args, framework>>

Next == SetupBeforeRun \/ Run \/ LoadData \/ TaskRun(BatchEnv) \/ RunJobsReturn \/ RunReturn

Spec == Init /\ [][Next]_vars

---------------------------------------------------------------------------
(* One BenchmarkTask: a batch of a single job, for every error_max_length  *)
(* and every shape of task definition                                      *)

InitTask ==
    /\ \E cores \in {None, Some(0), Some(2)}, source \in Sources :
          benchmark_def = << TaskDef("iris", 2, None, cores, 0, source) >>
    /\ config \in [error_max_length : 0..MaxErrLen, os_mem_size_mb : {2}, t : {None}, f : {None}]
    /\ init_args = [parallel_jobs |-> 1]
    /\ parallel_jobs = Validate(init_args.parallel_jobs)
    /\ framework \in RunFrameworks
    /\ pc = "running"
    /\ \E fold \in 0..1 :
          /\ args = [task_name |-> [kind |-> "str", v |-> <<"iris">>],
                     fold |-> [kind |-> "int", v |-> Some(fold)]]
          /\ jobs = ResolveJobs(benchmark_def, args.task_name, args.fold).jobs
    /\ results = <<>>
    /\ report = None
    /\ error = ""
    /\ last = NoLast

NextTask == LoadData \/ TaskRun(TaskEnv) \/ RunJobsReturn \/ RunReturn

SpecTask == InitTask /\ [][NextTask]_vars

---------------------------------------------------------------------------
(* TaskConfig.estimate_system_params on the per-run copy of a template,    *)
(* for every request, system and os_mem_size_mb                            *)

Systems ==
    { [cores |-> c, available2 |-> a, total2 |-> t] :
        c \in 1..MaxCores, a \in 0..MaxMem2, t \in {MaxMem2, 2 * MaxMem2} }

InitEstimate ==
    /\ \E cores \in -1..MaxCores, mem2 \in -2..MaxMem2 :
          benchmark_def = << TaskDef("iris", 1, None, Some(cores), mem2, "openml_task_id") >>
    /\ config \in [error_max_length : {10}, os_mem_size_mb : 0..MaxOsMem, t : {None}, f : {None}]
    /\ init_args = [parallel_jobs |-> 1]
    /\ parallel_jobs = Validate(init_args.parallel_jobs)
    /\ framework = NoFramework
    /\ pc = "running"
    /\ args = [task_name |-> [kind |-> "none", v |-> <<>>], fold |-> [kind |-> "none", v |-> <<>>]]
    /\ jobs = ResolveJobs(benchmark_def, args.task_name, args.fold).jobs
    /\ results = <<>>
    /\ report = None
    /\ error = ""
    /\ last = NoLast

\* line 310 and line 325: estimate_system_params on a copy of the template
Estimate ==
    /\ ~last.estimated
    /\ \E sys \in Systems :
          LET est == EstimateSystemParams(jobs[1].task, sys, config.os_mem_size_mb)
          IN  last' = [task_config |-> est.tc, sys |-> sys, warning |-> est.warning,
                       handed |-> FALSE, estimated |-> ~est.raised]
    /\ UNCHANGED <<benchmark_def, config, parallel_jobs, pc, args, jobs, results, report, error, init_args, framework>>

NextEstimate == Estimate

SpecEstimate == InitEstimate /\ [][NextEstimate]_vars

---------------------------------------------------------------------------
(* One BenchmarkTask under the command-line overrides of rconfig().t       *)

\* rconfig().t: None, or a namespace whose four entries are each None or a
\* value: a str for metric, a list of str for metrics
TaskOverrides ==
    {None} \cup
    {Some(o) : o \in [max_runtime_seconds : {None, Some(60)},
                      metric : {None, Some("auc")},
                      metrics : {None, Some(<<"auc", "acc">>)},
                      seed : {None, Some(1)}]}

\* what the task definition gives as metric: a str or a list of str
TaskMetrics == {MetricStr("acc"), MetricList(<<"acc", "auc">>)}

OverrideEnv ==
    Env({"yes", "no"}, {[cores |-> 2, available2 |-> 4, total2 |-> 8]},
        Adapters({MaxText}), {2})

InitOverride ==
    /\ \E metric \in TaskMetrics :
          benchmark_def =
             << [TaskDef("iris", 2, None, Some(2), 0, "openml_task_id")
                    EXCEPT !.metric = metric] >>
    /\ config \in [error_max_length : {10}, os_mem_size_mb : {2}, t : TaskOverrides, f : {None}]
    /\ init_args = [parallel_jobs |-> 1]
    /\ parallel_jobs = Validate(init_args.parallel_jobs)
    /\ framework \in RunFrameworks
    /\ pc = "running"
    /\ args = [task_name |-> [kind |-> "str", v |-> <<"iris">>],
               fold |-> [kind |-> "none", v |-> <<>>]]
    /\ jobs = ResolveJobs(benchmark_def, args.task_name, args.fold).jobs
    /\ results = <<>>
    /\ report = None
    /\ error = ""
    /\ last = NoLast

NextOverride == LoadData \/ TaskRun(OverrideEnv) \/ RunJobsReturn \/ RunReturn

SpecOverride == InitOverride /\ [][NextOverride]_vars

---------------------------------------------------------------------------
(* A Benchmark constructed with every requested parallel_jobs, running the *)
(* two jobs of one task                                                    *)

InitParallel ==
    /\ benchmark_def = << TaskDef("iris", 2, None, Some(2), 0, "openml_task_id") >>
    /\ config = [error_max_length |-> 10, os_mem_size_mb |-> 2, t |-> None, f |-> None]
    /\ init_args \in [parallel_jobs : 0..MaxParallel]
    /\ parallel_jobs = Validate(init_args.parallel_jobs)
    /\ framework \in RunFrameworks
    /\ pc = "running"
    /\ args = [task_name |-> [kind |-> "str", v |-> <<"iris">>],
               fold |-> [kind |-> "none", v |-> <<>>]]
    /\ jobs = ResolveJobs(benchmark_def, args.task_name, args.fold).jobs
    /\ results = <<>>
    /\ report = None
    /\ error = ""
    /\ last = NoLast

NextParallel == LoadData \/ TaskRun(BatchEnv) \/ RunJobsReturn \/ RunReturn

SpecParallel == InitParallel /\ [][NextParallel]_vars

---------------------------------------------------------------------------
(* One BenchmarkTask whose run method is called more than once, under the  *)
(* command-line overrides of rconfig().t and rconfig().f, on a system      *)
(* whose load changes between the calls                                    *)

\* rconfig().t: None, or every entry given
TemplateOverrides ==
    {None, Some([max_runtime_seconds |-> Some(60), metric |-> Some("auc"),
                 metrics |-> Some(<<"auc", "acc">>), seed |-> Some(1)])}

\* rconfig().f: None, or parameters for the framework
FrameworkOverrides == {None, Some(("verbose" :> "True") @@ ("n_estimators" :> "3000"))}

TemplateEnv ==
    Env({"yes", "no", "raise"},
        {[cores |-> 2, available2 |-> 4, total2 |-> 8],
         [cores |-> 1, available2 |-> 6, total2 |-> 8]},
        Adapters({MaxText}), {2})

InitTemplate ==
    /\ \E cores \in {None, Some(0), Some(2)}, mem2 \in {0, 4} :
          benchmark_def = << TaskDef("iris", 1, None, cores, mem2, "openml_task_id") >>
    /\ config \in [error_max_length : {10}, os_mem_size_mb : {2},
                   t : TemplateOverrides, f : FrameworkOverrides]
    /\ init_args = [parallel_jobs |-> 1]
    /\ parallel_jobs = Validate(init_args.parallel_jobs)
    /\ framework \in RunFrameworks
    /\ pc = "running"
    /\ args = [task_name |-> [kind |-> "str", v |-> <<"iris">>],
               fold |-> [kind |-> "int", v |-> Some(0)]]
    /\ jobs = ResolveJobs(benchmark_def, args.task_name, args.fold).jobs
    /\ results = <<>>
    /\ report = None
    /\ error = ""
    /\ last = NoLast

\* BenchmarkTask.run (lines 308-338) called once more on a BenchmarkTask whose
\* job has run: the method is public and reads self.task again.  The call
\* releases the dataset as every call does; what it returns goes to its
\* caller, not to the completions of the batch.
RunAgain(envs) ==
    /\ \E i \in 1..Len(jobs), env \in envs :
          /\ jobs[i].dataset = "loaded" /\ jobs[i].run # "notrun"
          /\ jobs[i].runs < MaxRuns
          /\ LET out == BenchmarkTaskRun(jobs[i], config, env)
             IN  /\ jobs' = [jobs EXCEPT ![i].task = out.template,
                                         ![i].runs = @ + 1,
                                         ![i].releases = out.releases]
                 /\ last' = [task_config |-> out.task_config, sys |-> env.sys,
                             warning |-> out.warning, handed |-> out.handed,
                             estimated |-> out.handed]
    /\ UNCHANGED <<benchmark_def, config, parallel_jobs, pc, args, results, report, error,
                   init_args, framework>>

NextTemplate ==
    LoadData \/ TaskRun(TemplateEnv) \/ RunAgain(TemplateEnv) \/ RunJobsReturn \/ RunReturn

SpecTemplate == InitTemplate /\ [][NextTemplate]_vars

---------------------------------------------------------------------------
(* The claims                                                              *)

Finished(i) == i \in 1..Len(results)
Returned == pc \in {"collected", "returned"}
TaskName(i) == benchmark_def[jobs[i].ti].name

\* C1: once load_data has succeeded for a job, BenchmarkTask.run returns a
\* Result and never raises: an exception of the adapter becomes a NoResult and
\* no exception of a step after loading leaves the method.
C1_RunNeverRaises ==
    \A i \in 1..Len(jobs) :
        (jobs[i].dataset = "loaded" /\ Finished(i)) =>
            /\ jobs[i].run = "returned"
            /\ ~IsNone(results[i].result)
            /\ (jobs[i].adapter = "raised" => Val(results[i].result).kind = "NoResult")

\* the row a job's own adapter outcome decides, whatever the other jobs did
OwnRow(i) ==
    [ task |-> TaskName(i),
      fold |-> jobs[i].fold,
      framework |-> FrameworkName,
      kind |-> IF jobs[i].adapter = "returned" THEN "Scored" ELSE "NoResult",
      info |-> IF jobs[i].adapter = "returned" THEN <<>>
               ELSE TruncateMessage(ErrorMessage(jobs[i].exc), config.error_max_length),
      duration |-> IF IsNone(jobs[i].reported) THEN Some(jobs[i].measured)
                   ELSE jobs[i].reported ]

\* C2: when _run_jobs has returned, there is one completion per submitted job,
\* in a batch where an adapter raised too, and every job whose adapter was
\* called has the result its own adapter outcome decides: a scored row if it
\* returned, a NoResult row if it raised.
C2_FaultIsolation ==
    Returned =>
        /\ Len(results) = Len(jobs)
        /\ \A i \in 1..Len(jobs) :
              /\ results[i].job = i
              /\ jobs[i].adapter # "notcalled" =>
                    /\ ~IsNone(results[i].result)
                    /\ Val(results[i].result) = OwnRow(i)

\* C2's case: a batch of three jobs whose first adapter raised and whose later
\* adapters returned
C2_Witness ==
    /\ Returned /\ Len(jobs) = 3 /\ Len(results) = 3
    /\ jobs[1].adapter = "raised"
    /\ jobs[2].adapter = "returned" /\ jobs[3].adapter = "returned"
    /\ Val(results[2].result).kind = "Scored"

\* C3: a report Benchmark.run returns has exactly one row per submitted job,
\* scored for the jobs whose adapter returned and NoResult for those whose
\* adapter raised, whatever the form of task_name (stated for the batches in
\* which the adapter of every job was called).
C3_ReportHasOneRowPerJob ==
    (/\ pc = "returned" /\ ~IsNone(report)
     /\ \A i \in 1..Len(jobs) : jobs[i].adapter # "notcalled") =>
        /\ Len(Val(report)) = Len(jobs)
        /\ \A i \in 1..Len(jobs) :
              /\ Val(report)[i].task = TaskName(i)
              /\ Val(report)[i].fold = jobs[i].fold
              /\ Val(report)[i].kind =
                    (IF jobs[i].adapter = "returned" THEN "Scored" ELSE "NoResult")

\* the definition a name selects: the first one of that name
Named(name) == {i \in 1..Len(benchmark_def) : benchmark_def[i].name = name}
FirstNamed(name) == CHOOSE i \in Named(name) : \A j \in Named(name) : i <= j

\* a requested name is unknown or disabled
BadName ==
    /\ args.task_name.kind # "none"
    /\ \E k \in 1..Len(args.task_name.v) :
          LET name == args.task_name.v[k]
          IN  \/ Named(name) = {}
              \/ benchmark_def[FirstNamed(name)].enabled = Some("False")

\* the fold argument is neither omitted, an int, nor a list of ints
MalformedFold ==
    \/ args.fold.kind = "other"
    \/ args.fold.kind = "list" /\ \E k \in 1..Len(args.fold.v) : IsNone(args.fold.v[k])

\* the tasks a well-named call selects
SelectedTasks ==
    IF args.task_name.kind = "none"
    THEN {i \in 1..Len(benchmark_def) : benchmark_def[i].enabled # Some("False")}
    ELSE {FirstNamed(args.task_name.v[k]) : k \in 1..Len(args.task_name.v)}

RequestedFolds ==
    IF args.fold.kind = "int" THEN {Val(args.fold.v)}
    ELSE IF args.fold.kind = "list" THEN {Val(args.fold.v[k]) : k \in 1..Len(args.fold.v)}
    ELSE {}

\* a requested fold is out of range for a selected task
FoldNotInRange ==
    /\ ~BadName /\ ~MalformedFold
    /\ \E i \in SelectedTasks, f \in RequestedFolds : f < 0 \/ f >= benchmark_def[i].folds

\* the resolved task set is empty
NoTaskSelected == ~BadName /\ SelectedTasks = {}

NothingExecuted ==
    /\ jobs = <<>> /\ results = <<>>
    /\ \A i \in 1..Len(benchmark_def) : benchmark_def[i].id = "absent"

\* C4: a call of Benchmark.run with an unknown or disabled task name, a fold
\* argument that is neither None, an int nor a list of ints, a fold out of
\* range for a selected task, or no task selected, ends with a ValueError and
\* no job of it is ever executed: no dataset is loaded, no adapter is called.
C4_ConfigurationErrorFirst ==
    (pc # "idle" /\ (BadName \/ MalformedFold \/ FoldNotInRange \/ NoTaskSelected)) =>
        /\ pc = "raised" /\ error # ""
        /\ NothingExecuted

\* C4's case: two tasks named, the second fold of the list out of range
C4_Witness ==
    /\ pc = "raised" /\ error = "FoldOutOfRange" /\ FoldNotInRange
    /\ args.task_name.kind = "list" /\ Len(args.task_name.v) = 2
    /\ args.fold.kind = "list" /\ Len(args.fold.v) = 2
    /\ Val(args.fold.v[1]) = 0

\* the call names one enabled task
OneTask ==
    /\ pc # "idle" /\ ~BadName
    /\ \/ args.task_name.kind = "str"
       \/ args.task_name.kind = "list" /\ Len(args.task_name.v) = 1

\* C5: for a task of k folds and a list F of folds, the expansion into jobs
\* succeeds if and only if every element of F is in [0, k), giving one job per
\* element of F in order; otherwise the fold-range error is raised and there
\* is no job.  With no fold argument there are exactly k jobs, of folds
\* 0..k-1 in order.
C5_FoldExpansion ==
    OneTask =>
        LET t == FirstNamed(args.task_name.v[1])
            k == benchmark_def[t].folds
            F == args.fold.v
        IN  /\ (args.fold.kind = "list" /\ ~MalformedFold) =>
                  /\ error = "" <=> \A n \in 1..Len(F) : 0 <= Val(F[n]) /\ Val(F[n]) < k
                  /\ error # "" => error = "FoldOutOfRange" /\ jobs = <<>>
                  /\ error = "" =>
                        /\ Len(jobs) = Len(F)
                        /\ \A n \in 1..Len(F) : jobs[n].fold = Val(F[n]) /\ jobs[n].ti = t
            /\ args.fold.kind = "none" =>
                  /\ error = "" /\ Len(jobs) = k
                  /\ \A n \in 1..k : jobs[n].fold = n - 1 /\ jobs[n].ti = t

\* C5's case: no fold argument, a task of two folds expanded into two jobs
C5_Witness ==
    /\ OneTask /\ args.fold.kind = "none"
    /\ benchmark_def[FirstNamed(args.task_name.v[1])].folds = 2
    /\ Len(jobs) = 2 /\ jobs[1].fold = 0 /\ jobs[2].fold = 1

\* C6: for every job whose dataset load succeeded, release is invoked exactly
\* once over the job's lifetime, when the adapter returns and when it raises.
C6_ReleasedExactlyOnce ==
    \A i \in 1..Len(jobs) :
        (jobs[i].dataset = "loaded" /\ Finished(i) /\ jobs[i].adapter # "notcalled") =>
            jobs[i].releases = 1

\* C6 as amended: release is invoked exactly twice when the adapter returns
\* (line 329 and the finally clause) and exactly once when it raises.
C6_ReleaseCount ==
    \A i \in 1..Len(jobs) :
        (jobs[i].dataset = "loaded" /\ Finished(i)) =>
            /\ jobs[i].adapter = "returned" => jobs[i].releases = 2
            /\ jobs[i].adapter = "raised" => jobs[i].releases = 1

\* C6's case: a finished job whose adapter returned, released twice
C6_Witness ==
    \E i \in 1..Len(jobs) :
        /\ Finished(i) /\ jobs[i].dataset = "loaded"
        /\ jobs[i].adapter = "returned" /\ jobs[i].releases = 2

EndsWith(s, tail) ==
    Len(s) >= Len(tail) /\ SubSeq(s, Len(s) - Len(tail) + 1, Len(s)) = tail

\* what the claim says of a stored message, msg being 'Error: ' + str(e)
TruncatedTo(stored, msg, max_len) ==
    IF Len(msg) > max_len
    THEN Len(stored) = max_len /\ EndsWith(stored, Ellipsis)
    ELSE stored = msg

\* C7: for every error_max_length L and every failing adapter, a message
\* longer than L is stored with length exactly L and ends with '...', and a
\* message not longer than L is stored unchanged.
C7_TruncatedForEveryLength ==
    \A i \in 1..Len(jobs) :
        (Finished(i) /\ jobs[i].adapter = "raised") =>
            TruncatedTo(Val(results[i].result).info, ErrorMessage(jobs[i].exc),
                        config.error_max_length)

\* C7 as amended: the same for every error_max_length L >= 3, and the stored
\* message then starts with the first L - 3 characters of the message.
C7_TruncatedFromThree ==
    \A i \in 1..Len(jobs) :
        (Finished(i) /\ jobs[i].adapter = "raised" /\ config.error_max_length >= 3) =>
            LET stored == Val(results[i].result).info
                msg == ErrorMessage(jobs[i].exc)
                L == config.error_max_length
            IN  /\ TruncatedTo(stored, msg, L)
                /\ Len(msg) > L => SubSeq(stored, 1, L - 3) = SubSeq(msg, 1, L - 3)

\* C7's case: a message of 12 characters stored under a maximum of 9
C7_Witness ==
    \E i \in 1..Len(jobs) :
        /\ Finished(i) /\ jobs[i].adapter = "raised"
        /\ Len(jobs[i].exc) = 5 /\ config.error_max_length = 9
        /\ Len(Val(results[i].result).info) = 9

\* the requests of the estimate: the template's values, the copy holds the
\* resolved ones
RequestedMem2 == jobs[1].task.max_mem_size_mb2
RequestedCores == Val(jobs[1].task.cores)
ResolvedMem2 == last.task_config.max_mem_size_mb2

\* C8: estimate_system_params resolves memory to m if m > 0; otherwise to
\* S_a - H/2 if that quantity is positive; otherwise to S_a (all in half MB).
C8_MemoryAsStated ==
    last.estimated =>
        ResolvedMem2 =
            (IF RequestedMem2 > 0 THEN RequestedMem2
             ELSE IF last.sys.available2 - config.os_mem_size_mb > 0
                  THEN last.sys.available2 - config.os_mem_size_mb
             ELSE last.sys.available2)

\* r is the float x2 / 2 rounded to the nearest integer, a tie going to the
\* even one
IsRounded(r, x2) == 2 * r = x2 \/ (x2 % 2 = 1 /\ r % 2 = 0 /\ 2 * r - x2 \in {-1, 1})

\* t is the float x2 / 2 with its fraction dropped
IsTruncated(t, x2) ==
    IF x2 >= 0 THEN 2 * t <= x2 /\ x2 < 2 * t + 2
    ELSE 2 * t >= x2 /\ x2 > 2 * t - 2

\* C8 as amended: memory resolves to m rounded to the nearest integer if
\* m > 0; otherwise to S_a - H/2 truncated to an integer if that integer is
\* positive (S_a - H/2 >= 1); otherwise to S_a rounded to the nearest integer.
C8_MemoryRoundedAndTruncated ==
    last.estimated =>
        /\ ResolvedMem2 % 2 = 0
        /\ LET r == ResolvedMem2 \div 2
               left2 == last.sys.available2 - config.os_mem_size_mb
           IN  IF RequestedMem2 > 0 THEN IsRounded(r, RequestedMem2)
               ELSE IF left2 >= 2 THEN IsTruncated(r, left2)
               ELSE IsRounded(r, last.sys.available2)

\* C8's case: no memory requested, 2.5 MB available and a headroom of 2 MB:
\* S_a - H/2 = 1.5 resolves to 1
C8_Witness ==
    /\ last.estimated /\ RequestedMem2 = 0
    /\ last.sys.available2 = 5 /\ config.os_mem_size_mb = 2
    /\ ResolvedMem2 = 2

\* C9: estimate_system_params resolves cores to min(c, S_c) when c > 0 and to
\* S_c when c <= 0.
C9_Cores ==
    last.estimated =>
        LET r == Val(last.task_config.cores)
            c == RequestedCores
            sc == last.sys.cores
        IN  IF c > 0 THEN r <= c /\ r <= sc /\ r \in {c, sc} ELSE r = sc

\* C9's case: three cores requested on a system of two
C9_Witness ==
    /\ last.estimated /\ RequestedCores = 3 /\ last.sys.cores = 2
    /\ Val(last.task_config.cores) = 2

\* C10: after _run_jobs has returned, the result of a completion whose adapter
\* reported no valid duration has the duration the runner measured for that
\* same job, and any other result keeps the duration the adapter reported.
C10_DurationReconciled ==
    Returned =>
        \A k \in 1..Len(results) :
            ~IsNone(results[k].result) =>
                LET j == results[k].job
                    d == Val(results[k].result).duration
                IN  IF IsNone(jobs[j].reported) THEN d = Some(jobs[j].measured)
                    ELSE d = jobs[j].reported

\* C10's case: two completions, the first without a reported duration and
\* measured at 3, the second with a reported duration of 1 and measured at 2
C10_Witness ==
    /\ Returned /\ Len(results) >= 2
    /\ jobs[1].adapter = "returned" /\ IsNone(jobs[1].reported) /\ jobs[1].measured = 3
    /\ Val(results[1].result).duration = Some(3)
    /\ jobs[2].reported = Some(1) /\ jobs[2].measured = 2
    /\ Val(results[2].result).duration = Some(1)


SetupCall(i) == framework.calls[i]
RanSetup(c) == c.module_setup # "notcalled" \/ c.setup_cmd # "notcalled"
SetupSucceeded(c) == c.module_setup = "returned" /\ ~c.raised

\* what "runs the adapter setup and the external setup command" asks of a
\* call: the adapter's setup is called if the adapter has one, and the command,
\* if the framework defines one, is called unless the adapter's setup raised
RunsSetup(c) ==
    /\ framework.has_setup => c.module_setup # "notcalled"
    /\ (~IsNone(framework.setup_cmd) /\ c.module_setup # "raised") => c.setup_cmd # "notcalled"

\* C11: in every sequence of Benchmark.setup calls for one framework, a call
\* with mode skip runs neither the adapter setup nor the setup command; a call
\* with mode auto runs them only if the marker file is absent, so no auto call
\* that follows a successful setup runs them; a call with mode force runs them
\* whatever the marker; a call with mode only performs the setup.
C11_SetupModes ==
    \A i \in 1..Len(framework.calls) :
        LET c == SetupCall(i)
        IN  /\ c.mode = "skip" => ~RanSetup(c)
            /\ (c.mode = "auto" /\ RanSetup(c)) => ~c.marker_before
            /\ (c.mode = "auto" /\ \E j \in 1..(i - 1) : SetupSucceeded(SetupCall(j)))
                  => ~RanSetup(c)
            /\ c.mode \in {"force", "only"} => RunsSetup(c)


\* the enabled flag of a definition is absent or true-like
FlagAbsentOrTrue(task_def) ==
    IsNone(task_def.enabled) \/ Val(task_def.enabled) \in {"True", "true", "yes", "1"}

\* the definitions the jobs of the call were made of
JobTasks == {jobs[k].ti : k \in 1..Len(jobs)}

\* the fold argument is not the empty list, which asks for no job at all
SomeFold == args.fold.kind # "list" \/ Len(args.fold.v) > 0

\* C12: looking up a task by name fails with the unknown-task error if no
\* definition of the benchmark has that name, fails with the task-disabled
\* error if the definition of that name has a false enabled flag, and
\* otherwise gives that one definition; a definition counts as enabled exactly
\* when its enabled flag is absent or true-like, which is also what selects
\* the tasks of a call that names none.
C12_TaskLookup ==
    /\ (pc # "idle" /\ args.task_name.kind = "str") =>
          LET name == args.task_name.v[1]
          IN  IF Named(name) = {}
              THEN pc = "raised" /\ error = "IncorrectTaskName" /\ jobs = <<>>
              ELSE IF ~FlagAbsentOrTrue(benchmark_def[FirstNamed(name)])
              THEN pc = "raised" /\ error = "TaskDisabled" /\ jobs = <<>>
              ELSE /\ error \notin {"IncorrectTaskName", "TaskDisabled"}
                   /\ (error = "" /\ SomeFold) => JobTasks = {FirstNamed(name)}
    /\ (pc # "idle" /\ args.task_name.kind = "none" /\ error = "" /\ SomeFold) =>
          JobTasks = {i \in 1..Len(benchmark_def) : FlagAbsentOrTrue(benchmark_def[i])}

\* C12's case: the name of a disabled definition is looked up
C12_Witness ==
    /\ pc = "raised" /\ error = "TaskDisabled"
    /\ args.task_name.kind = "str"
    /\ Named(args.task_name.v[1]) # {}
    /\ benchmark_def[FirstNamed(args.task_name.v[1])].enabled = Some("False")


\* C13: once the dataset of a job is loaded, release is invoked on it at least
\* once before the job's invocation ends, on every exit path: normal return,
\* failure of the adapter, and an exception of a step between the loading and
\* the adapter call (task type, framework lookup, config specialization,
\* resource estimate).
C13_ReleasedOnEveryExit ==
    \A i \in 1..Len(jobs) :
        (jobs[i].dataset = "loaded" /\ Finished(i)) => jobs[i].releases >= 1


\* the two conditions of lines 249 and 252 on the resolved memory
ExceedsAvailable == ResolvedMem2 > last.sys.available2
WithinHeadroom == ResolvedMem2 > last.sys.total2 - 2 * config.os_mem_size_mb

\* C14: estimate_system_params emits the exceeds-availability warning whenever
\* the resolved memory is greater than the available memory, and emits the
\* headroom warning whenever the resolved memory is greater than the total
\* memory less os_mem_size_mb, each whenever its own condition holds; the
\* resolved memory is left as computed and nothing is raised.
C14_EachWarningOnItsCondition ==
    last.estimated =>
        /\ ExceedsAvailable => last.warning = "exceeds_available"
        /\ WithinHeadroom => last.warning = "within_buffer"
        /\ ResolvedMem2 = 2 * AssignedMem(RequestedMem2, last.sys.available2, config.os_mem_size_mb)


\* the template TaskConfig of job i is as TaskConfig.from_def made it
TemplateUnchanged(i) ==
    jobs[i].task = TaskConfigFromDef(benchmark_def[jobs[i].ti], jobs[i].fold)

\* the jobs whose BenchmarkTask.run was entered, and the last of them, which
\* is the one `last` is about
RanJobs == {i \in 1..Len(jobs) : jobs[i].run # "notrun"}
LastRan == CHOOSE i \in RanJobs : \A j \in RanJobs : j <= i

\* the cores and memory a run resolves from what the definition requests, on
\* the system as it is at that run
ResolvedAfresh(task_def, tc) ==
    /\ LET c == Val(task_def.cores)
           r == Val(tc.cores)
       IN  IF c > 0 THEN r <= c /\ r <= last.sys.cores /\ r \in {c, last.sys.cores}
           ELSE r = last.sys.cores
    /\ LET m2 == task_def.max_mem_size_mb2
           left2 == last.sys.available2 - config.os_mem_size_mb
           r == tc.max_mem_size_mb2 \div 2
       IN  /\ tc.max_mem_size_mb2 % 2 = 0
           /\ IF m2 > 0 THEN IsRounded(r, m2)
              ELSE IF left2 >= 2 THEN IsTruncated(r, left2)
              ELSE IsRounded(r, last.sys.available2)

\* C15: executing a job leaves every field of the template TaskConfig of its
\* BenchmarkTask unchanged: framework name, params, task type, command-line
\* overrides, predictions path and the resolved cores and memory are written
\* to the per-run copy only, so the resources of every run are resolved from
\* the cores and memory the task definition requests and never from a value
\* resolved before.
C15_TemplateUnchanged ==
    /\ \A i \in 1..Len(jobs) : TemplateUnchanged(i)
    /\ (last.handed /\ RanJobs # {}) =>
          ResolvedAfresh(benchmark_def[jobs[LastRan].ti], last.task_config)

\* C15's case: run was called twice on one BenchmarkTask whose definition
\* leaves cores and memory to the system, under overrides of both kinds; the
\* copy handed to the adapter differs from the template in every field named
C15_Witness ==
    /\ Len(jobs) = 1 /\ jobs[1].runs = 2 /\ last.handed
    /\ ~IsNone(config.t) /\ ~IsNone(config.f)
    /\ benchmark_def[1].cores = Some(0) /\ benchmark_def[1].max_mem_size_mb2 = 0
    /\ last.sys.cores = 1
    /\ LET tc == last.task_config
           template == jobs[1].task
       IN  /\ tc.framework # template.framework
           /\ tc.framework_params # template.framework_params
           /\ tc.type # template.type
           /\ tc.metric # template.metric /\ tc.metrics # template.metrics
           /\ tc.seed # template.seed
           /\ tc.max_runtime_seconds # template.max_runtime_seconds
           /\ tc.output_predictions_file # template.output_predictions_file
           /\ tc.cores # template.cores
           /\ tc.max_mem_size_mb2 # template.max_mem_size_mb2

\* C16: a TaskDefinition is immutable once loaded: no step of a benchmark run
\* (job creation, dataset loading, job execution, result collection) adds or
\* changes an attribute of a definition, so the benchmark definition is at
\* every step one of the catalogs as loaded, in which no definition has an id.
C16_TaskDefinitionImmutable ==
    /\ benchmark_def \in Catalogs
    /\ \A i \in 1..Len(benchmark_def) : benchmark_def[i].id = "absent"


\* the tasks of the call in the order the claim gives: the enabled definitions
\* in catalog order when no name is given, the given names otherwise
RECURSIVE EnabledFrom(_)
EnabledFrom(i) ==
    IF i > Len(benchmark_def) THEN <<>>
    ELSE (IF FlagAbsentOrTrue(benchmark_def[i]) THEN <<i>> ELSE <<>>) \o EnabledFrom(i + 1)

TaskOrder ==
    IF args.task_name.kind = "none" THEN EnabledFrom(1)
    ELSE [k \in 1..Len(args.task_name.v) |-> FirstNamed(args.task_name.v[k])]

\* the folds requested of a task of n_folds folds, in the order requested
FoldOrder(n_folds) ==
    IF args.fold.kind = "none" THEN [n \in 1..n_folds |-> n - 1]
    ELSE IF args.fold.kind = "int" THEN <<Val(args.fold.v)>>
    ELSE [n \in 1..Len(args.fold.v) |-> Val(args.fold.v[n])]

\* the number of jobs of the first a tasks of the call
RECURSIVE JobsBefore(_)
JobsBefore(a) ==
    IF a = 0 THEN 0
    ELSE JobsBefore(a - 1) + Len(FoldOrder(benchmark_def[TaskOrder[a]].folds))

\* C17: the jobs Benchmark.run submits are ordered by task first (the enabled
\* definitions in catalog order when task_name is omitted, the given names in
\* their order otherwise) and, within a task, by the order of the requested
\* folds; the sequential runner returns the completions in that order.
C17_SubmissionOrder ==
    (pc \in {"running", "collected", "returned"}) =>
        /\ Len(jobs) = JobsBefore(Len(TaskOrder))
        /\ \A a \in 1..Len(TaskOrder) :
              LET folds == FoldOrder(benchmark_def[TaskOrder[a]].folds)
              IN  \A b \in 1..Len(folds) :
                     /\ jobs[JobsBefore(a - 1) + b].ti = TaskOrder[a]
                     /\ jobs[JobsBefore(a - 1) + b].fold = folds[b]
        /\ \A i \in 1..Len(results) : results[i].job = i

\* C17's case: two tasks named against the catalog order, the second of two
\* folds, and all three completions returned
C17_Witness ==
    /\ pc = "collected" /\ Len(results) = 3
    /\ args.task_name.kind = "list" /\ args.task_name.v = <<"kc2", "iris">>
    /\ jobs[2].ti = 1 /\ jobs[3].ti = 1 /\ jobs[1].ti = 2


\* the marker file appeared in setup call c
MarkerCreated(c) == ~c.marker_before /\ c.marker_after

\* C18: the marker file of the framework is created only after the adapter's
\* setup and the external setup command have both completed without raising;
\* if either raises the marker stays absent, and the next setup call with
\* mode auto runs the setup again.
C18_MarkerAfterSetup ==
    \A i \in 1..Len(framework.calls) :
        LET c == SetupCall(i)
        IN  /\ MarkerCreated(c) =>
                  /\ c.module_setup = "returned"
                  /\ IF IsNone(framework.setup_cmd) THEN c.setup_cmd = "notcalled"
                                                    ELSE c.setup_cmd = "returned"
            /\ (c.raised /\ ~c.marker_before) => ~c.marker_after
            /\ (c.raised /\ ~c.marker_before /\ i < Len(framework.calls)
                  /\ SetupCall(i + 1).mode = "auto") =>
                  SetupCall(i + 1).module_setup # "notcalled"
            /\ c.marker_after = framework.marker \/ i < Len(framework.calls)
            /\ i > 1 => c.marker_before = SetupCall(i - 1).marker_after

\* C18's case: the setup command raises in a first call, which leaves no
\* marker; the auto call that follows runs the setup again and creates it
C18_Witness ==
    /\ Len(framework.calls) >= 2
    /\ SetupCall(1).setup_cmd = "raised" /\ ~SetupCall(1).marker_after
    /\ SetupCall(2).mode = "auto" /\ SetupCall(2).setup_cmd = "returned"
    /\ MarkerCreated(SetupCall(2)) /\ framework.marker


\* the jobs whose _run has started and has not ended
Executing == {i \in 1..Len(jobs) : ~Finished(i) /\ jobs[i].dataset = "loaded"}

\* line 120: _run_jobs takes the sequential runner
SequentialRunner == parallel_jobs = 1

\* C19: once a Benchmark is constructed its parallel_jobs is never greater
\* than 1: a requested value above 1 is reset to 1, so for every requested
\* value of at least 1 _run_jobs takes the sequential runner, and at most one
\* job is executing at any time.
C19_NeverParallel ==
    /\ parallel_jobs <= 1
    /\ init_args.parallel_jobs > 1 => parallel_jobs = 1
    /\ init_args.parallel_jobs >= 1 => SequentialRunner
    /\ Cardinality(Executing) <= 1
    /\ \A i \in 1..Len(jobs) :
          (jobs[i].dataset = "loaded" \/ Finished(i)) => \A j \in 1..(i - 1) : Finished(j)

\* C19's case: two parallel jobs were requested; the second job of the batch
\* is executing after the first has ended
C19_Witness ==
    /\ init_args.parallel_jobs = 2 /\ parallel_jobs = 1
    /\ Len(jobs) >= 2 /\ Finished(1) /\ Executing = {2}


\* C20: in every TaskConfig handed to the framework adapter, metric is the
\* first element of metrics, also after the overrides t.metric and t.metrics
\* of the command line have been applied to the per-run copy.
C20_MetricIsFirstOfMetrics ==
    last.handed => last.task_config.metric = last.task_config.metrics[1]

===========================================================================
